---- MODULE Spec2Model ----
(***************************************************************************)
(* Attendance verification of the hostel hub server: the POST /attendance  *)
(* check-in handler (duplicate check, geofence, face verification, save)   *)
(* run by concurrent requests over one Attendance collection, together     *)
(* with the update and delete routes that write the same collection.       *)
(*                                                                         *)
(* Time is counted in ticks, TicksPerDay ticks to a server-local calendar  *)
(* day.  Coordinates are offsets on an integer grid around the configured  *)
(* centre, UnitMeters metres to a grid step; getDistance is the planar     *)
(* distance on that grid (the source uses the haversine formula on         *)
(* degrees).  A similarity score is an integer number of hundredths of a   *)
(* percent.  A handler yields to other requests only at an await, so each  *)
(* action runs from one await of the handler to the next.                  *)
(***************************************************************************)
EXTENDS Integers, Sequences, FiniteSets, Bags, TLC

(* ------------------------------ bounds -------------------------------- *)

\* largest timestamp a request or an update may carry
MaxDate == 2

\* largest number of documents the Attendance collection may hold
MaxRecords == 2

\* ticks in one server-local calendar day (setHours(0,0,0,0) .. setHours(23,59,59,999))
TicksPerDay == 2

\* metres in one grid step of the coordinate grid
UnitMeters == 100

\* polygon corners lie on the even grid points 0, 2, .. 2 * MaxCorner of
\* each axis, query points on -1 .. 2 * MaxCorner + 1
MaxCorner == 2

\* the check-in requests that may be in flight together
ReqIds == {1, 2}

Dates == 0 .. MaxDate

(* ------------------------------ users --------------------------------- *)

\* the ids a request may name: two users of the User collection and one id
\* that resolves to nothing
UserIds == {"u1", "u2", "nobody"}

\* the User collection: u1 has a registered face vector and lives in a
\* configured hostel; u2 has the empty default array and a hostel block
\* without coordinates
UserDocs ==
  [u1 |-> [faceEmbedding |-> <<1>>, hostelBlock |-> "Valluvar Mens Hostel"],
   u2 |-> [faceEmbedding |-> <<>>, hostelBlock |-> "A"]]

Users == DOMAIN UserDocs

\* a lookup that yields a document for every id
UserFound_AnyId(userId) == TRUE

\* User.findById(userId) found a document
UserFound(userId) == userId \in Users

(* ----------------------------- geofence ------------------------------- *)

\* a JavaScript number: nan is TRUE for NaN
Num(v) == [nan |-> FALSE, v |-> v]

NaN == [nan |-> TRUE, v |-> 0]

\* the decimal strings the model's requests use for a coordinate
NumericStrings == {"0", "1", "30", "31"}

\* parseFloat on a body field
parseFloat(s) ==
  CASE s = "0" -> Num(0)
    [] s = "1" -> Num(1)
    [] s = "30" -> Num(30)
    [] s = "31" -> Num(31)
    [] OTHER -> NaN

\* floor of the square root
RECURSIVE SqrtFrom(_, _)
SqrtFrom(n, k) == IF (k + 1) * (k + 1) > n THEN k ELSE SqrtFrom(n, k + 1)

ISqrt(n) == SqrtFrom(n, 0)

\* distance in metres between two grid points; NaN when a coordinate is NaN
getDistance(lat1, lon1, lat2, lon2) ==
  IF lat1.nan \/ lon1.nan \/ lat2.nan \/ lon2.nan
  THEN NaN
  ELSE Num(UnitMeters * ISqrt((lat2.v - lat1.v) * (lat2.v - lat1.v)
                              + (lon2.v - lon1.v) * (lon2.v - lon1.v)))

\* a <= b on JavaScript numbers: false when either is NaN
LessEq(a, b) == ~a.nan /\ ~b.nan /\ a.v <= b.v

\* a < b on JavaScript numbers: false when either is NaN
LessThan(a, b) == ~a.nan /\ ~b.nan /\ a.v < b.v

\* one edge test of the ray casting, latitude as x and longitude as y;
\* the division by (yj - yi) is cleared by multiplying both sides
EdgeIntersects(lat, lon, pi, pj) ==
  LET xi == pi.latitude
      yi == pi.longitude
      xj == pj.latitude
      yj == pj.longitude
  IN /\ ~lat.nan /\ ~lon.nan
     /\ (yi > lon.v) /= (yj > lon.v)
     /\ IF yj - yi > 0
        THEN (lat.v - xi) * (yj - yi) < (xj - xi) * (lon.v - yi)
        ELSE (lat.v - xi) * (yj - yi) > (xj - xi) * (lon.v - yi)

\* the loop of isPointInPolygon from vertex i on, j the vertex visited
\* before i: inside is negated at each intersecting edge (i, j)
RECURSIVE PolygonLoop(_, _, _, _, _, _)
PolygonLoop(lat, lon, polygon, i, j, inside) ==
  IF i > Len(polygon) THEN inside
  ELSE PolygonLoop(lat, lon, polygon, i + 1, i,
                   IF EdgeIntersects(lat, lon, polygon[i], polygon[j])
                   THEN ~inside ELSE inside)

\* the loop started after its first edge, the one that closes the ring
isPointInPolygon_OpenRing(lat, lon, polygon) ==
  PolygonLoop(lat, lon, polygon, 2, 1, FALSE)

\* the server's isPointInPolygon: the loop starts at the first vertex with
\* j the last one
isPointInPolygon(lat, lon, polygon) ==
  PolygonLoop(lat, lon, polygon, 1, Len(polygon), FALSE)

\* TEST_CONFIG on the grid: a one-step square whose first corner is the
\* centre, radius 3000 m
TEST_CONFIG ==
  [points |-> << [latitude |-> 0, longitude |-> 0],
                 [latitude |-> 1, longitude |-> 0],
                 [latitude |-> 1, longitude |-> 1],
                 [latitude |-> 0, longitude |-> 1] >>,
   hasCenter |-> TRUE,
   center |-> [latitude |-> 0, longitude |-> 0],
   radius |-> 3000]

\* the keys of HOSTEL_LOCATIONS
ConfiguredHostels ==
  {"Kaveri Ladies Hostel", "Amaravathi Ladies Hostel", "Bhavani Ladies Hostel",
   "Dheeran Mens Hostel", "Valluvar Mens Hostel", "Ilango Mens Hostel",
   "Bharathi Mens Hostel", "Kamban Mens Hostel", "Ponnar Mens Hostel",
   "Sankar Mens Hostel", "TEST - My Location"}

\* HOSTEL_LOCATIONS[name] for a name that is a key
HOSTEL_LOCATIONS(name) == TEST_CONFIG

\* truthiness of a string-or-undefined body field
Truthy(s) == s /= "undefined" /\ s /= ""

\* the radius test with distance < radius
BoundaryTest_StrictRadius(hostelConfig, lat, lon) ==
  IF hostelConfig.radius /= 0 /\ hostelConfig.hasCenter
  THEN LET distance == getDistance(lat, lon, Num(hostelConfig.center.latitude),
                                   Num(hostelConfig.center.longitude))
       IN [mode |-> "radius", distance |-> distance,
           isInside |-> LessThan(distance, Num(hostelConfig.radius))]
  ELSE [mode |-> "polygon", distance |-> NaN,
        isInside |-> isPointInPolygon(lat, lon, hostelConfig.points)]

\* the polygon test taken whenever the boundary has points
BoundaryTest_PolygonFirst(hostelConfig, lat, lon) ==
  IF Len(hostelConfig.points) = 0 /\ hostelConfig.radius /= 0 /\ hostelConfig.hasCenter
  THEN LET distance == getDistance(lat, lon, Num(hostelConfig.center.latitude),
                                   Num(hostelConfig.center.longitude))
       IN [mode |-> "radius", distance |-> distance,
           isInside |-> LessEq(distance, Num(hostelConfig.radius))]
  ELSE [mode |-> "polygon", distance |-> NaN,
        isInside |-> isPointInPolygon(lat, lon, hostelConfig.points)]

\* lines 236-251: isInside by the radius test when the boundary has a
\* radius and a centre, else by the polygon test; a radius of 0 stands for
\* no radius (either is falsy), hasCenter for a centre being there
BoundaryTest(hostelConfig, lat, lon) ==
  IF hostelConfig.radius /= 0 /\ hostelConfig.hasCenter
  THEN LET distance == getDistance(lat, lon, Num(hostelConfig.center.latitude),
                                   Num(hostelConfig.center.longitude))
       IN [mode |-> "radius", distance |-> distance,
           isInside |-> LessEq(distance, Num(hostelConfig.radius))]
  ELSE [mode |-> "polygon", distance |-> NaN,
        isInside |-> isPointInPolygon(lat, lon, hostelConfig.points)]

\* the GPS validation against the hostel block of the user, the request's
\* hostel taken only for a user without one
GeofenceCheck_HomeHostel(userId, latitude, longitude, selectedHostel) ==
  LET hostelToValidate == IF Truthy(UserDocs[userId].hostelBlock)
                          THEN UserDocs[userId].hostelBlock
                          ELSE selectedHostel
  IN IF /\ hostelToValidate \in ConfiguredHostels
        /\ Truthy(latitude)
        /\ Truthy(longitude)
        /\ latitude /= "web"
     THEN LET test == BoundaryTest(HOSTEL_LOCATIONS(hostelToValidate),
                                   parseFloat(latitude), parseFloat(longitude))
          IN [verdict |-> IF test.isInside THEN "inside" ELSE "outside",
              mode |-> test.mode, distance |-> test.distance]
     ELSE [verdict |-> "bypass", mode |-> "-", distance |-> NaN]

\* the GPS validation of a request: verdict "bypass" when the guard of the
\* validation is false, else "inside" or "outside" by the boundary test,
\* with the test's mode and distance
GeofenceCheck(userId, latitude, longitude, selectedHostel) ==
  LET hostelToValidate == IF Truthy(selectedHostel)
                          THEN selectedHostel
                          ELSE UserDocs[userId].hostelBlock
  IN IF /\ hostelToValidate \in ConfiguredHostels
        /\ Truthy(latitude)
        /\ Truthy(longitude)
        /\ latitude /= "web"
     THEN LET test == BoundaryTest(HOSTEL_LOCATIONS(hostelToValidate),
                                   parseFloat(latitude), parseFloat(longitude))
          IN [verdict |-> IF test.isInside THEN "inside" ELSE "outside",
              mode |-> test.mode, distance |-> test.distance]
     ELSE [verdict |-> "bypass", mode |-> "-", distance |-> NaN]

\* the body values of the location fields
Latitudes == {"undefined", "", "web", "abc", "0", "30", "31"}

Longitudes == {"undefined", "", "web", "0"}

SelectedHostels == {"undefined", "Valluvar Mens Hostel", "A"}

\* what the GPS validation of a request of userId may come to, over the
\* location fields a body may carry: the branch taken, the mode and the
\* distance of the boundary test, and whether the latitude was the "web"
\* sentinel
GpsValidations(userId) ==
  {LET g == GeofenceCheck(userId, latitude, longitude, selectedHostel)
   IN [verdict |-> g.verdict, mode |-> g.mode, distance |-> g.distance,
       sentinel |-> (latitude = "web")] :
      latitude \in Latitudes, longitude \in Longitudes,
      selectedHostel \in SelectedHostels}

\* GpsValidations, tabulated per user
GpsValidationsOf == [userId \in Users |-> GpsValidations(userId)]

\* one validation per verdict a user's requests may get: the handler acts
\* on the verdict alone, so runs that keep no record of the distance need
\* no more
GpsVerdictsOf ==
  [userId \in Users |->
     {CHOOSE g \in GpsValidationsOf[userId] : g.verdict = v :
        v \in {h.verdict : h \in GpsValidationsOf[userId]}}]

(* ------------------------- face verification -------------------------- *)

\* hundredths in one percent of similarity
ScoreScale == 100

\* MATCH_THRESHOLD, in percent
MATCH_THRESHOLD == 50

\* the scores calculateSimilarity may return, in hundredths of a percent
Scores == {0, MATCH_THRESHOLD * ScoreScale - 1, MATCH_THRESHOLD * ScoreScale,
           100 * ScoreScale}

\* what awaiting getFaceEmbedding and comparing may end in: getFaceEmbedding
\* throws, the comparison throws, or calculateSimilarity returns a score
EmbeddingOutcomes ==
  {[kind |-> "throws", score |-> 0], [kind |-> "compareThrows", score |-> 0]}
    \cup {[kind |-> "score", score |-> s] : s \in Scores}

\* the guard written as if (photoUrl)
FaceCheckApplies_PhotoOnly(isPresent, photoUrl) == Truthy(photoUrl)

\* the face verification applies: isPresent && photoUrl
FaceCheckApplies(isPresent, photoUrl) == isPresent = "true" /\ Truthy(photoUrl)

\* !user.faceEmbedding || user.faceEmbedding.length === 0
NoFaceEmbedding(userId) == Len(UserDocs[userId].faceEmbedding) = 0

\* the comparison written as similarity <= MATCH_THRESHOLD
BelowThreshold_Inclusive(similarity) == similarity <= MATCH_THRESHOLD * ScoreScale

\* similarity < MATCH_THRESHOLD
BelowThreshold(similarity) == similarity < MATCH_THRESHOLD * ScoreScale

(* ------------------------------ ledger -------------------------------- *)

\* setHours(0, 0, 0, 0) on a timestamp
StartOfDay(date) == (date \div TicksPerDay) * TicksPerDay

\* setHours(23, 59, 59, 999) on a timestamp
EndOfDay(date) == StartOfDay(date) + TicksPerDay - 1

\* the server-local calendar day of a timestamp
DayOf(date) == date \div TicksPerDay

\* the isPresent a document is stored with: the schema default is true
StoredIsPresent(isPresent) == isPresent /= "false"

\* a document dated at the start of the request's day
Record_StartOfDay(userId, date, isPresent) ==
  [userId |-> userId, date |-> StartOfDay(date), isPresent |-> isPresent]

\* the values of an Attendance document the routes read
Record(userId, date, isPresent) ==
  [userId |-> userId, date |-> date, isPresent |-> isPresent]

(* ------------------------------- state -------------------------------- *)

VARIABLES
  ledger,   \* the Attendance collection: a bag of Record values
  pc,       \* per request: the await its handler is suspended at
  req,      \* per request: the handler's locals that outlive an await
  resp,     \* per request: the response sent, NoResponse before it
  hist,     \* per request: what the gates read and decided (gates runs)
  watch,    \* one successful save, and what the delete and update routes
            \* did to its (user, day) since (ledger runs)
  eval,     \* the last call of a function or read-only route outside the
            \* check-in handler: its arguments and its result
  suggestions,  \* the MenuSuggestion collection, by document id
  voting,       \* per vote request: the await its handler is suspended at
                \* and its locals
  users,        \* the User collection: the roomNumber of each student
  rooms,        \* the Room collection, by roomNumber (one hostel block)
  roomChanges,  \* the RoomChangeRequest collection, by document id
  registering,  \* per registration: the await and the handler's locals
  approving     \* per status update: the await and the handler's locals

vars == <<ledger, pc, req, resp, hist, watch, eval, suggestions, voting,
          users, rooms, roomChanges, registering, approving>>

\* the state of the attendance routes, of the menu suggestion routes and
\* of the registration and room change routes
attendanceVars == <<ledger, pc, req, resp, hist, watch, eval>>

menuVars == <<suggestions, voting>>

roomVars == <<users, rooms, roomChanges, registering, approving>>

\* the body values of isPresent and photoUrl
IsPresentValues == {"true", "false", "undefined"}

PhotoUrls == {"undefined", "data:image/jpeg;base64,AAAA"}

\* the responses of POST /attendance: the status, the error text (without
\* its interpolated parts) and the number the text carries, 0 for none
Response(status, error) == [status |-> status, error |-> error, detail |-> 0]

NoResponse == Response(0, "-")

Created == Response(201, "-")

UserNotFound == Response(404, "User not found")

AlreadyMarked == Response(400, "Attendance already marked for today.")

OutsideBoundary == Response(400, "Location validation failed.")

NotRegistered == Response(400, "Face ID not registered.")

EmbeddingFailed == Response(400, "faceError.message")

\* similarity.toFixed(1), in tenths of a percent
ToFixed1(similarity) == (similarity * 10 + ScoreScale \div 2) \div ScoreScale

FaceMismatch(similarity) ==
  [status |-> 400, error |-> "Face mismatch!", detail |-> ToFixed1(similarity)]

FaceServiceError == Response(500, "Face verification service error.")

ServerError == Response(500, "Server error")

\* the (user, calendar day) pairs
Keys == Users \X {DayOf(d) : d \in Dates}

NoWatch == [key |-> <<"-", 0>>, state |-> "none"]

NoEval == [call |-> "-"]

NoRequest == [userId |-> "-", date |-> 0, isPresent |-> FALSE]

\* read: the handler has read the body at the gates; existing, geo, mode,
\* distance, sentinel, isPresent, photo: what the body and the collection
\* were then and what the GPS validation computed;
\* before: the collection then; calls: getFaceEmbedding calls issued;
\* gen, score: how getFaceEmbedding and the comparison ended; bio: the
\* verdict of the face verification
NoHistory ==
  [read |-> FALSE, existing |-> FALSE, geo |-> "-", mode |-> "-",
   distance |-> NaN, sentinel |-> FALSE,
   isPresent |-> "-", photo |-> FALSE, before |-> EmptyBag, calls |-> 0,
   gen |-> "-", score |-> 0, bio |-> "-"]

\* the ids of MenuSuggestion documents and of the vote requests in flight
MaxSuggestions == 1

MaxVotes == 3

SuggestionIds == 1 .. MaxSuggestions

VoteIds == {1, 2}

NoSuggestion == [exists |-> FALSE, votes |-> 0, votedBy |-> <<>>]

NoVote == [pc |-> "idle", id |-> 0, userId |-> "-", status |-> 0]

\* no suggestion is stored and no vote is in flight
InitMenu ==
  /\ suggestions = [s \in SuggestionIds |-> NoSuggestion]
  /\ voting = [v \in VoteIds |-> NoVote]

\* the students that may register, the rooms of the block, the ids of
\* RoomChangeRequest documents, and the requests in flight
StudentIds == {"s1", "s2"}

RoomNumbers == {"101", "102"}

MaxRequests == 1

RequestIds == 1 .. MaxRequests

RegIds == {1, 2}

ApprIds == {1, 2}

\* `room ? room.capacity : 4` and $setOnInsert: { capacity: 4 }
DefaultCapacity == 4

\* the capacity of the Room document of room 101
SeededCapacity == 1

\* how often the move of one request may be applied before the model
\* stops taking status updates for it
MaxMoves == 2

NoRoom == [exists |-> FALSE, capacity |-> 0, currentOccupancy |-> 0]

\* moves: how often the room move of the request was applied
NoRoomChange ==
  [exists |-> FALSE, userId |-> "-", currentRoom |-> "-", requestedRoom |-> "-",
   status |-> "-", moves |-> 0]

NoRegistration == [pc |-> "idle", registerId |-> "-", roomNumber |-> "-", capacity |-> 0]

NoApproval ==
  [pc |-> "idle", id |-> 0, status |-> "-", currentOccupancy |-> 0]

\* no student is registered; room 101 has a Room document and room 102
\* has none
InitRooms ==
  /\ users = [s \in StudentIds |-> "-"]
  /\ rooms = [n \in RoomNumbers |->
                IF n = "101"
                THEN [exists |-> TRUE, capacity |-> SeededCapacity, currentOccupancy |-> 0]
                ELSE NoRoom]
  /\ roomChanges = [q \in RequestIds |-> NoRoomChange]
  /\ registering = [p \in RegIds |-> NoRegistration]
  /\ approving = [a \in ApprIds |-> NoApproval]

Init ==
  /\ ledger = EmptyBag
  /\ pc = [r \in ReqIds |-> "idle"]
  /\ req = [r \in ReqIds |-> NoRequest]
  /\ resp = [r \in ReqIds |-> NoResponse]
  /\ hist = [r \in ReqIds |-> NoHistory]
  /\ watch = NoWatch
  /\ InitMenu
  /\ InitRooms
  /\ eval = NoEval

\* the audit record of request r becomes h; audit names what a run records
\* beside the program's state: "gates" the gates' inputs and verdicts,
\* "ledger" the watched save, "none" neither
Note(r, audit, h) == hist' = IF audit = "gates" THEN [hist EXCEPT ![r] = h] ELSE hist

\* res.status(..).json(..): the handler of r returns with response kind
Respond(r, audit, kind) ==
  /\ pc' = [pc EXCEPT ![r] = "done"]
  /\ resp' = [resp EXCEPT ![r] = kind]
  /\ req' = IF audit = "none" THEN [req EXCEPT ![r] = NoRequest] ELSE req

\* the query with isPresent: true added to its filter
ExistingAttendance_PresentOnly(userId, date) ==
  \E rec \in BagToSet(ledger) :
    /\ rec.userId = userId
    /\ rec.isPresent
    /\ rec.date >= StartOfDay(date)
    /\ rec.date <= EndOfDay(date)

\* the query over the day window widened by a day each side
ExistingAttendance_Widened(userId, date) ==
  \E rec \in BagToSet(ledger) :
    /\ rec.userId = userId
    /\ rec.date >= StartOfDay(date) - TicksPerDay
    /\ rec.date <= EndOfDay(date) + TicksPerDay

\* Attendance.findOne({userId, date: {$gte: startOfDay, $lte: endOfDay}})
\* of the check-in handler found a document
ExistingAttendance(userId, date) ==
  \E rec \in BagToSet(ledger) :
    /\ rec.userId = userId
    /\ rec.date >= StartOfDay(date)
    /\ rec.date <= EndOfDay(date)

\* the (user, calendar day) a request is for
KeyOf(q) == <<q.userId, DayOf(q.date)>>

\* requests past the duplicate check, each of which saves one document
\* unless the face verification rejects it
Saving == {r \in ReqIds : pc[r] \in {"getFaceEmbedding", "save"}}

(* ------------------------- POST /attendance --------------------------- *)

\* a request arrives: the handler reads userId and awaits User.findById
Receive(r, audit) ==
  /\ pc[r] = "idle"
  /\ \E userId \in UserIds :
       req' = [req EXCEPT ![r] = [NoRequest EXCEPT !.userId = userId]]
  /\ pc' = [pc EXCEPT ![r] = "findUser"]
  /\ resp' = [resp EXCEPT ![r] = NoResponse]
  /\ Note(r, audit, NoHistory)
  /\ UNCHANGED <<ledger, watch, eval, menuVars, roomVars>>

\* User.findById answers: 404 without a user, else the handler computes the
\* day window of the body's date and awaits Attendance.findOne
FindUserReturn(r, audit) ==
  /\ pc[r] = "findUser"
  /\ IF ~UserFound(req[r].userId)
     THEN Respond(r, audit, UserNotFound)
     ELSE /\ \E date \in Dates : req' = [req EXCEPT ![r].date = date]
          /\ pc' = [pc EXCEPT ![r] = "findOne"]
          /\ UNCHANGED resp
  /\ UNCHANGED <<ledger, hist, watch, eval, menuVars, roomVars>>

\* the handler with the GPS validation moved before the duplicate check
GateDecision_GeofenceFirst(existing, geo, isPresent, photoUrl, userId) ==
  IF geo = "outside" THEN "outside"
  ELSE IF existing THEN "duplicate"
  ELSE IF FaceCheckApplies(isPresent, photoUrl)
       THEN IF NoFaceEmbedding(userId) THEN "notRegistered" ELSE "embed"
       ELSE "save"

\* the handler without the early return for a user without a face vector
GateDecision_NoEnrollmentGuard(existing, geo, isPresent, photoUrl, userId) ==
  IF existing THEN "duplicate"
  ELSE IF geo = "outside" THEN "outside"
  ELSE IF FaceCheckApplies(isPresent, photoUrl) THEN "embed"
  ELSE "save"

\* lines 225-303 up to the first return or await: what the handler does
\* once findOne has answered, from the duplicate check to the guard of the
\* face verification
GateDecision(existing, geo, isPresent, photoUrl, userId) ==
  IF existing THEN "duplicate"
  ELSE IF geo = "outside" THEN "outside"
  ELSE IF FaceCheckApplies(isPresent, photoUrl)
       THEN IF NoFaceEmbedding(userId) THEN "notRegistered" ELSE "embed"
       ELSE "save"

\* Attendance.findOne answers; the handler runs, without yielding, the
\* duplicate check, the GPS validation and the guard of the face
\* verification, up to a return or the await of getFaceEmbedding or of save
FindOneReturn(r, audit) ==
  /\ pc[r] = "findOne"
  /\ UNCHANGED <<ledger, watch, eval, menuVars, roomVars>>
  /\ \E gps \in IF audit = "gates"
                 THEN GpsValidationsOf[req[r].userId]
                 ELSE GpsVerdictsOf[req[r].userId],
        isPresent \in IsPresentValues, photoUrl \in PhotoUrls :
       LET existing == ExistingAttendance(req[r].userId, req[r].date)
           decision == GateDecision(existing, gps.verdict, isPresent, photoUrl,
                                    req[r].userId)
           h == [hist[r] EXCEPT !.read = TRUE, !.existing = existing,
                                !.geo = gps.verdict, !.mode = gps.mode,
                                !.distance = gps.distance,
                                !.sentinel = gps.sentinel,
                                !.isPresent = isPresent, !.photo = Truthy(photoUrl),
                                !.before = ledger]
       IN CASE decision = "duplicate" ->
                 Respond(r, audit, AlreadyMarked) /\ Note(r, audit, h)
            [] decision = "outside" ->
                 Respond(r, audit, OutsideBoundary) /\ Note(r, audit, h)
            [] decision = "notRegistered" ->
                 Respond(r, audit, NotRegistered) /\ Note(r, audit, h)
            [] OTHER ->
                 /\ BagCardinality(ledger) + Cardinality(Saving) < MaxRecords
                 /\ req' = [req EXCEPT ![r].isPresent = StoredIsPresent(isPresent)]
                 /\ UNCHANGED resp
                 /\ IF decision = "embed"
                    THEN /\ pc' = [pc EXCEPT ![r] = "getFaceEmbedding"]
                         /\ Note(r, audit, [h EXCEPT !.calls = @ + 1, !.gen = "pending"])
                    ELSE /\ pc' = [pc EXCEPT ![r] = "save"]
                         /\ Note(r, audit, h)

\* the inner catch logging the error and going on to save
FaceVerdict_DefaultAccept(out) ==
  CASE out.kind = "compareThrows" -> "serviceError"
    [] out.kind = "score" /\ BelowThreshold(out.score) -> "mismatch"
    [] OTHER -> "accept"

\* lines 276-295: the verdict of the face verification on how
\* getFaceEmbedding and the comparison ended
FaceVerdict(out) ==
  CASE out.kind = "throws" -> "embeddingFailed"
    [] out.kind = "compareThrows" -> "serviceError"
    [] out.kind = "score" /\ BelowThreshold(out.score) -> "mismatch"
    [] OTHER -> "accept"

\* getFaceEmbedding settles; the handler compares the vectors and either
\* returns a rejection or builds the document and awaits save
GetFaceEmbeddingReturn(r, audit) ==
  /\ pc[r] = "getFaceEmbedding"
  /\ UNCHANGED <<ledger, watch, eval, menuVars, roomVars>>
  /\ \E out \in EmbeddingOutcomes :
       LET verdict == FaceVerdict(out)
           h == [hist[r] EXCEPT !.gen = out.kind, !.score = out.score,
                                !.bio = verdict]
       IN /\ Note(r, audit, h)
          /\ CASE verdict = "embeddingFailed" -> Respond(r, audit, EmbeddingFailed)
               [] verdict = "serviceError" -> Respond(r, audit, FaceServiceError)
               [] verdict = "mismatch" -> Respond(r, audit, FaceMismatch(out.score))
               [] OTHER -> /\ pc' = [pc EXCEPT ![r] = "save"]
                           /\ UNCHANGED <<req, resp>>

\* attendance.save() answers: the document is in the collection, 201
SaveReturn(r, audit) ==
  /\ pc[r] = "save"
  /\ ledger' = ledger (+) SetToBag({Record(req[r].userId, req[r].date, req[r].isPresent)})
  /\ Respond(r, audit, Created)
  /\ \/ watch' = IF audit = "ledger"
                   THEN [key |-> KeyOf(req[r]), state |-> "clean"]
                   ELSE watch
     \/ audit = "ledger" /\ watch.key /= KeyOf(req[r]) /\ watch' = watch
  /\ UNCHANGED <<hist, eval, menuVars, roomVars>>

\* save throwing after the document was written
StorageError_AfterWrite(r, audit) ==
  /\ pc[r] \in {"findUser", "findOne", "save"}
  /\ ledger' = IF pc[r] = "save"
               THEN ledger (+) SetToBag({Record(req[r].userId, req[r].date,
                                                req[r].isPresent)})
               ELSE ledger
  /\ Respond(r, audit, ServerError)
  /\ UNCHANGED <<hist, watch, eval, menuVars, roomVars>>

\* an awaited storage call (findById, findOne, save) throws: the outer catch
\* answers 500 and nothing was written
StorageError(r, audit) ==
  /\ pc[r] \in {"findUser", "findOne", "save"}
  /\ Respond(r, audit, ServerError)
  /\ UNCHANGED <<ledger, hist, watch, eval, menuVars, roomVars>>

\* the response is delivered and the handler's frame is gone
Retire(r) ==
  /\ pc[r] = "done"
  /\ pc' = [pc EXCEPT ![r] = "idle"]
  /\ req' = [req EXCEPT ![r] = NoRequest]
  /\ resp' = [resp EXCEPT ![r] = NoResponse]
  /\ hist' = [hist EXCEPT ![r] = NoHistory]
  /\ UNCHANGED <<ledger, watch, eval, menuVars, roomVars>>

(* -------------------- PUT and DELETE /attendance ---------------------- *)

\* the documents a date window selects for a user
InWindow(userId, from, to) ==
  {rec \in BagToSet(ledger) : rec.userId = userId /\ rec.date >= from /\ rec.date <= to}

\* Attendance.deleteMany over a set of document values
DeleteMany(recs) == [rec \in BagToSet(ledger) \ recs |-> ledger[rec]]

\* the watched save after a delete of userId's documents dated from..to,
\* asked for calendar day `day`: a delete for the watched (user, day)
\* itself ends the watch; a delete for another day whose window takes in
\* the watched day leaves it "disturbed"
WatchAfterDelete(userId, day, from, to) ==
  IF watch.state = "none" \/ watch.key[1] /= userId THEN watch
  ELSE IF watch.key[2] = day THEN NoWatch
  ELSE IF DayOf(from) <= watch.key[2] /\ watch.key[2] <= DayOf(to)
       THEN [watch EXCEPT !.state = "disturbed"]
       ELSE watch

\* PUT /:id: findByIdAndUpdate(id, req.body) on one document; the body may
\* set any of userId, date and isPresent
UpdateAttendance ==
  /\ \E rec \in BagToSet(ledger), userId \in Users, date \in Dates, isPresent \in BOOLEAN :
       /\ ledger' = (ledger (-) SetToBag({rec}))
                       (+) SetToBag({Record(userId, date, isPresent)})
       /\ watch' = IF watch.state /= "none" /\ watch.key = KeyOf(rec)
                   THEN [watch EXCEPT !.state = "disturbed"]
                   ELSE watch
  /\ UNCHANGED <<pc, req, resp, hist, eval, menuVars, roomVars>>

\* DELETE /today/:userId, now the server's clock
DeleteToday ==
  /\ \E userId \in Users, now \in Dates :
       /\ ledger' = DeleteMany(InWindow(userId, StartOfDay(now), EndOfDay(now)))
       /\ watch' = WatchAfterDelete(userId, DayOf(now), StartOfDay(now), EndOfDay(now))
  /\ UNCHANGED <<pc, req, resp, hist, eval, menuVars, roomVars>>

\* DELETE /user/:userId/date/:date: the day window widened by a day each side
DeleteForSubjectAndDateOn(userId, date) ==
  LET from == StartOfDay(date) - TicksPerDay
      to == EndOfDay(date) + TicksPerDay
  IN /\ ledger' = DeleteMany(InWindow(userId, from, to))
     /\ watch' = WatchAfterDelete(userId, DayOf(date), from, to)
     /\ UNCHANGED <<pc, req, resp, hist, eval, menuVars, roomVars>>

\* DELETE /user/:userId/date/:date for some user and date
DeleteForSubjectAndDate ==
  \E userId \in Users, date \in Dates : DeleteForSubjectAndDateOn(userId, date)

(* ---------------------- GET /check/:userId/:date ---------------------- *)

\* Attendance.findOne of GET /check found a document: the day window of
\* the date, widened by a day each side
MarkedInCheck(userId, date) ==
  \E rec \in BagToSet(ledger) :
    /\ rec.userId = userId
    /\ rec.date >= StartOfDay(date) - TicksPerDay
    /\ rec.date <= EndOfDay(date) + TicksPerDay

\* GET /check/:userId/:date answers {marked: !!attendance}, or 500 when
\* the query throws
CheckAttendance ==
  /\ \E userId \in Users, date \in Dates :
       \/ eval' = [call |-> "check", userId |-> userId, date |-> date,
                   status |-> 200, marked |-> MarkedInCheck(userId, date)]
       \/ eval' = [call |-> "check", userId |-> userId, date |-> date,
                   status |-> 500, marked |-> FALSE]
  /\ UNCHANGED <<ledger, pc, req, resp, hist, watch, menuVars, roomVars>>

(* --------------------------- GET /stats/admin ------------------------- *)

\* User.distinct("_id", {role: "student", hostelBlock: adminBlock})
StudentIdsInBlock(adminBlock) ==
  {userId \in Users : UserDocs[userId].hostelBlock = adminBlock}

\* the documents matching {date: {$gte: today}, isPresent: true,
\* userId: {$in: studentIds}}
PresentSince(today, studentIds) ==
  {rec \in BagToSet(ledger) :
     rec.date >= today /\ rec.isPresent /\ rec.userId \in studentIds}

\* Attendance.countDocuments over those documents, copies counted
AttendanceCount(today, studentIds) ==
  LET S == PresentSince(today, studentIds)
  IN BagCardinality([rec \in S |-> ledger[rec]])

\* the students outside Attendance.distinct("userId", ...) over them
AbsentStudents(today, studentIds) ==
  studentIds \ {rec.userId : rec \in PresentSince(today, studentIds)}

\* the blocks an admin may belong to
AdminBlocks == {UserDocs[userId].hostelBlock : userId \in Users}

\* GET /stats/admin for an admin of adminBlock, now the server's clock
AdminStats ==
  /\ \E adminBlock \in AdminBlocks, now \in Dates :
       LET today == StartOfDay(now)
           studentIds == StudentIdsInBlock(adminBlock)
       IN eval' = [call |-> "stats", adminBlock |-> adminBlock, today |-> today,
                   studentCount |-> Cardinality(studentIds),
                   attendanceCount |-> AttendanceCount(today, studentIds),
                   absentCount |-> Cardinality(AbsentStudents(today, studentIds))]
  /\ UNCHANGED <<ledger, pc, req, resp, hist, watch, menuVars, roomVars>>

(* ------------------------- menu suggestions --------------------------- *)

\* votedBy.includes(userId)
Includes(votedBy, userId) == \E i \in 1 .. Len(votedBy) : votedBy[i] = userId

\* POST /menu-suggestions: the document is saved with the creator as its
\* one vote
CreateSuggestion ==
  /\ \E s \in SuggestionIds, userId \in Users :
       /\ ~suggestions[s].exists
       /\ suggestions' = [suggestions EXCEPT
                           ![s] = [exists |-> TRUE, votes |-> 1, votedBy |-> <<userId>>]]
  /\ UNCHANGED <<voting, attendanceVars, roomVars>>

\* POST /:id/vote arrives: the handler awaits MenuSuggestion.findById
VoteReceive(v) ==
  /\ voting[v].pc = "idle"
  /\ \E s \in SuggestionIds, userId \in Users :
       voting' = [voting EXCEPT ![v] = [pc |-> "findById", id |-> s,
                                        userId |-> userId, status |-> 0]]
  /\ UNCHANGED <<suggestions, attendanceVars, roomVars>>

\* findById answers: 404 without a document, 400 when votedBy of the
\* document read holds the user, else the handler awaits findByIdAndUpdate
VoteFindByIdReturn(v) ==
  /\ voting[v].pc = "findById"
  /\ LET existingSuggestion == suggestions[voting[v].id]
     IN voting' = [voting EXCEPT ![v] =
          IF ~existingSuggestion.exists
          THEN [@ EXCEPT !.pc = "done", !.status = 404]
          ELSE IF Includes(existingSuggestion.votedBy, voting[v].userId)
               THEN [@ EXCEPT !.pc = "done", !.status = 400]
               ELSE [@ EXCEPT !.pc = "findByIdAndUpdate"]]
  /\ UNCHANGED <<suggestions, attendanceVars, roomVars>>

\* findByIdAndUpdate applies {$inc: {votes: 1}, $push: {votedBy: userId}}
\* to the stored document in one step
VoteUpdateReturn(v) ==
  /\ voting[v].pc = "findByIdAndUpdate"
  /\ Len(suggestions[voting[v].id].votedBy) < MaxVotes
  /\ suggestions' = [suggestions EXCEPT
                      ![voting[v].id].votes = @ + 1,
                      ![voting[v].id].votedBy = Append(@, voting[v].userId)]
  /\ voting' = [voting EXCEPT ![v].pc = "done", ![v].status = 200]
  /\ UNCHANGED <<attendanceVars, roomVars>>

\* an awaited query of the vote handler throws: the catch answers 500
VoteStorageError(v) ==
  /\ voting[v].pc \in {"findById", "findByIdAndUpdate"}
  /\ voting' = [voting EXCEPT ![v].pc = "done", ![v].status = 500]
  /\ UNCHANGED <<suggestions, attendanceVars, roomVars>>

\* the response is delivered and the handler's frame is gone
VoteRetire(v) ==
  /\ voting[v].pc = "done"
  /\ voting' = [voting EXCEPT ![v] = NoVote]
  /\ UNCHANGED <<suggestions, attendanceVars, roomVars>>

(* ------------------------- POST /auth/register ----------------------- *)

\* User.countDocuments({roomNumber, hostelBlock})
Occupants(roomNumber) == Cardinality({s \in StudentIds : users[s] = roomNumber})

\* the registrations of other requests past User.findOne
InFlight(p) == {registering[q].registerId : q \in RegIds \ {p}}

\* a student's registration for a room arrives: the handler awaits
\* User.findOne({registerId}); the ids of concurrent registrations differ
RegisterReceive(p) ==
  /\ registering[p].pc = "idle"
  /\ \E registerId \in StudentIds \ InFlight(p), roomNumber \in RoomNumbers :
       registering' = [registering EXCEPT
                         ![p] = [NoRegistration EXCEPT !.pc = "findUser",
                                                       !.registerId = registerId,
                                                       !.roomNumber = roomNumber]]
  /\ UNCHANGED <<users, rooms, roomChanges, approving, attendanceVars, menuVars>>

\* User.findOne answers: 400 'User already exists', else the handler
\* awaits Room.findOne
RegisterFindUserReturn(p) ==
  /\ registering[p].pc = "findUser"
  /\ registering' = [registering EXCEPT ![p] =
                       IF users[registering[p].registerId] /= "-"
                       THEN NoRegistration
                       ELSE [@ EXCEPT !.pc = "findRoom"]]
  /\ UNCHANGED <<users, rooms, roomChanges, approving, attendanceVars, menuVars>>

\* Room.findOne answers: capacity is the document's, 4 without a document;
\* the handler awaits User.countDocuments
RegisterFindRoomReturn(p) ==
  /\ registering[p].pc = "findRoom"
  /\ LET room == rooms[registering[p].roomNumber]
     IN registering' = [registering EXCEPT
                          ![p].pc = "countDocuments",
                          ![p].capacity = IF room.exists THEN room.capacity
                                          ELSE DefaultCapacity]
  /\ UNCHANGED <<users, rooms, roomChanges, approving, attendanceVars, menuVars>>

\* countDocuments answers: 400 'Room is full' when the count has reached
\* the capacity read before, else the handler hashes the password and
\* awaits User.create
RegisterCountReturn(p) ==
  /\ registering[p].pc = "countDocuments"
  /\ registering' = [registering EXCEPT ![p] =
                       IF Occupants(registering[p].roomNumber) >= registering[p].capacity
                       THEN NoRegistration
                       ELSE [@ EXCEPT !.pc = "create"]]
  /\ UNCHANGED <<users, rooms, roomChanges, approving, attendanceVars, menuVars>>

\* User.create answers: the student is stored with the room; the handler
\* awaits Room.findOneAndUpdate
RegisterCreateReturn(p) ==
  /\ registering[p].pc = "create"
  /\ users' = [users EXCEPT ![registering[p].registerId] = registering[p].roomNumber]
  /\ registering' = [registering EXCEPT ![p].pc = "findOneAndUpdate"]
  /\ UNCHANGED <<rooms, roomChanges, approving, attendanceVars, menuVars>>

\* Room.findOneAndUpdate({$inc: {currentOccupancy: 1}, $setOnInsert:
\* {capacity: 4}}, {upsert: true}) answers; 201
RegisterUpdateRoomReturn(p) ==
  /\ registering[p].pc = "findOneAndUpdate"
  /\ LET room == rooms[registering[p].roomNumber]
     IN rooms' = [rooms EXCEPT ![registering[p].roomNumber] =
                    IF room.exists
                    THEN [room EXCEPT !.currentOccupancy = @ + 1]
                    ELSE [exists |-> TRUE, capacity |-> DefaultCapacity,
                          currentOccupancy |-> 1]]
  /\ registering' = [registering EXCEPT ![p] = NoRegistration]
  /\ UNCHANGED <<users, roomChanges, approving, attendanceVars, menuVars>>

\* an awaited call of the registration throws: the catch answers 500 and
\* what was written before stays
RegisterStorageError(p) ==
  /\ registering[p].pc /= "idle"
  /\ registering' = [registering EXCEPT ![p] = NoRegistration]
  /\ UNCHANGED <<users, rooms, roomChanges, approving, attendanceVars, menuVars>>

(* ----------------------- room change requests ------------------------- *)

RequestStatuses == {"approved", "rejected"}

\* POST /room-change-requests of a registered student without a pending
\* request, for another room than the student's own
CreateRoomChange ==
  /\ \E q \in RequestIds, userId \in StudentIds, requestedRoom \in RoomNumbers :
       /\ ~roomChanges[q].exists
       /\ users[userId] /= "-"
       /\ requestedRoom /= users[userId]
       /\ ~\E e \in RequestIds : /\ roomChanges[e].exists
                                  /\ roomChanges[e].userId = userId
                                  /\ roomChanges[e].status = "pending"
       /\ roomChanges' = [roomChanges EXCEPT
                            ![q] = [exists |-> TRUE, userId |-> userId,
                                    currentRoom |-> users[userId],
                                    requestedRoom |-> requestedRoom,
                                    status |-> "pending", moves |-> 0]]
  /\ UNCHANGED <<users, rooms, registering, approving, attendanceVars, menuVars>>

\* PUT /room-change-requests/:id arrives with a status: the handler awaits
\* RoomChangeRequest.findById
UpdateReceive(a) ==
  /\ approving[a].pc = "idle"
  /\ \E q \in RequestIds, status \in RequestStatuses :
       /\ roomChanges[q].moves < MaxMoves
       /\ approving' = [approving EXCEPT
                          ![a] = [NoApproval EXCEPT !.pc = "findById", !.id = q,
                                                    !.status = status]]
  /\ UNCHANGED <<users, rooms, roomChanges, registering, attendanceVars, menuVars>>

\* status === 'approved' && request.status !== 'approved'
MoveApplies(status, stored) == status = "approved" /\ stored /= "approved"

\* findById answers: 404 without a document; an approval of a request not
\* yet approved awaits Room.findOne of the requested room, any other
\* update goes to request.save
UpdateFindByIdReturn(a) ==
  /\ approving[a].pc = "findById"
  /\ LET request == roomChanges[approving[a].id]
     IN approving' = [approving EXCEPT ![a] =
          IF ~request.exists THEN NoApproval
          ELSE IF MoveApplies(approving[a].status, request.status)
               THEN [@ EXCEPT !.pc = "findNewRoom"]
               ELSE [@ EXCEPT !.pc = "saveRequest"]]
  /\ UNCHANGED <<users, rooms, roomChanges, registering, attendanceVars, menuVars>>

\* Room.findOne of the requested room answers: 404 without a document,
\* 400 when the document read is full, else the handler keeps the
\* document and awaits User.findByIdAndUpdate
UpdateFindNewRoomReturn(a) ==
  /\ approving[a].pc = "findNewRoom"
  /\ LET newRoom == rooms[roomChanges[approving[a].id].requestedRoom]
     IN approving' = [approving EXCEPT ![a] =
          IF ~newRoom.exists THEN NoApproval
          ELSE IF newRoom.currentOccupancy >= newRoom.capacity THEN NoApproval
               ELSE [@ EXCEPT !.pc = "updateUser",
                              !.currentOccupancy = newRoom.currentOccupancy]]
  /\ UNCHANGED <<users, rooms, roomChanges, registering, attendanceVars, menuVars>>

\* User.findByIdAndUpdate answers: the student's roomNumber is the
\* requested room; the handler adds 1 to the occupancy of the document it
\* holds and awaits newRoom.save()
UpdateUserReturn(a) ==
  /\ approving[a].pc = "updateUser"
  /\ LET request == roomChanges[approving[a].id]
     IN /\ users' = [users EXCEPT ![request.userId] = request.requestedRoom]
        /\ roomChanges' = [roomChanges EXCEPT ![approving[a].id].moves = @ + 1]
  /\ approving' = [approving EXCEPT ![a].pc = "saveNewRoom",
                                    ![a].currentOccupancy = @ + 1]
  /\ UNCHANGED <<rooms, registering, attendanceVars, menuVars>>

\* newRoom.save() answers: the stored occupancy is the one of the
\* document held; the handler awaits Room.findOne of the old room
UpdateSaveNewRoomReturn(a) ==
  /\ approving[a].pc = "saveNewRoom"
  /\ rooms' = [rooms EXCEPT
                ![roomChanges[approving[a].id].requestedRoom].currentOccupancy =
                  approving[a].currentOccupancy]
  /\ approving' = [approving EXCEPT ![a].pc = "findOldRoom"]
  /\ UNCHANGED <<users, roomChanges, registering, attendanceVars, menuVars>>

\* Room.findOne of the old room answers: with a document of positive
\* occupancy the handler takes 1 off and awaits oldRoom.save(), else it
\* goes to request.save
UpdateFindOldRoomReturn(a) ==
  /\ approving[a].pc = "findOldRoom"
  /\ LET oldRoom == rooms[roomChanges[approving[a].id].currentRoom]
     IN approving' = [approving EXCEPT ![a] =
          IF oldRoom.exists /\ oldRoom.currentOccupancy > 0
          THEN [@ EXCEPT !.pc = "saveOldRoom",
                         !.currentOccupancy = oldRoom.currentOccupancy - 1]
          ELSE [@ EXCEPT !.pc = "saveRequest"]]
  /\ UNCHANGED <<users, rooms, roomChanges, registering, attendanceVars, menuVars>>

\* oldRoom.save() answers; the handler awaits request.save()
UpdateSaveOldRoomReturn(a) ==
  /\ approving[a].pc = "saveOldRoom"
  /\ rooms' = [rooms EXCEPT
                ![roomChanges[approving[a].id].currentRoom].currentOccupancy =
                  approving[a].currentOccupancy]
  /\ approving' = [approving EXCEPT ![a].pc = "saveRequest"]
  /\ UNCHANGED <<users, roomChanges, registering, attendanceVars, menuVars>>

\* request.save() answers: the request has the status of the body; 200
UpdateSaveRequestReturn(a) ==
  /\ approving[a].pc = "saveRequest"
  /\ roomChanges' = [roomChanges EXCEPT ![approving[a].id].status = approving[a].status]
  /\ approving' = [approving EXCEPT ![a] = NoApproval]
  /\ UNCHANGED <<users, rooms, registering, attendanceVars, menuVars>>

\* an awaited call of the status update throws: the catch answers 500 and
\* what was written before stays
UpdateStorageError(a) ==
  /\ approving[a].pc /= "idle"
  /\ approving' = [approving EXCEPT ![a] = NoApproval]
  /\ UNCHANGED <<users, rooms, roomChanges, registering, attendanceVars, menuVars>>

(* ------------------------ the boundary test alone --------------------- *)

\* the k-th even grid point, row by row
Corner(k) == [latitude |-> 2 * (k \div (MaxCorner + 1)),
              longitude |-> 2 * (k % (MaxCorner + 1))]

\* twice the signed area of the triangle a, b, c: 0 when they are in line
Cross(a, b, c) ==
  (b.latitude - a.latitude) * (c.longitude - a.longitude)
    - (b.longitude - a.longitude) * (c.latitude - a.latitude)

\* the triangles on the even grid, one vertex order each
Triangles ==
  LET n == (MaxCorner + 1) * (MaxCorner + 1)
      Ordered == {t \in (0 .. n - 1) \X (0 .. n - 1) \X (0 .. n - 1) :
                    t[1] < t[2] /\ t[2] < t[3]}
  IN {<<Corner(t[1]), Corner(t[2]), Corner(t[3])>> : t \in Ordered}

\* simple rings of more than three vertices: a square, a concave
\* quadrilateral, an L-shaped hexagon, and the square of TEST_CONFIG
Rings ==
  {<< [latitude |-> 0, longitude |-> 0], [latitude |-> 4, longitude |-> 0],
      [latitude |-> 4, longitude |-> 4], [latitude |-> 0, longitude |-> 4] >>,
   << [latitude |-> 0, longitude |-> 0], [latitude |-> 4, longitude |-> 0],
      [latitude |-> 1, longitude |-> 1], [latitude |-> 0, longitude |-> 4] >>,
   << [latitude |-> 0, longitude |-> 0], [latitude |-> 4, longitude |-> 0],
      [latitude |-> 4, longitude |-> 2], [latitude |-> 2, longitude |-> 2],
      [latitude |-> 2, longitude |-> 4], [latitude |-> 0, longitude |-> 4] >>,
   TEST_CONFIG.points}

\* the polygons a HostelBoundary may carry as points
Polygons ==
  {t \in Triangles : Cross(t[1], t[2], t[3]) /= 0} \cup Rings

\* the radius of a HostelBoundary in metres, 0 for none
Radii == {0, 200}

\* the HostelBoundary values: points, with or without a centre (the first
\* corner, as in TEST_CONFIG) and a radius
HostelBoundaries ==
  {[points |-> polygon, hasCenter |-> hasCenter, center |-> polygon[1],
    radius |-> radius] :
      polygon \in Polygons, hasCenter \in BOOLEAN, radius \in Radii}

QueryCoordinates == -1 .. 2 * MaxCorner + 1

\* a call of the boundary test is about to run
InitGeo ==
  /\ ledger = EmptyBag
  /\ pc = [r \in ReqIds |-> "idle"]
  /\ req = [r \in ReqIds |-> NoRequest]
  /\ resp = [r \in ReqIds |-> NoResponse]
  /\ hist = [r \in ReqIds |-> NoHistory]
  /\ watch = NoWatch
  /\ InitMenu
  /\ InitRooms
  /\ \E hostelConfig \in HostelBoundaries, lat \in QueryCoordinates,
        lon \in QueryCoordinates :
       eval = [call |-> "BoundaryTest", hostelConfig |-> hostelConfig,
               lat |-> lat, lon |-> lon, returned |-> FALSE,
               isInside |-> FALSE, mode |-> "-"]

\* lines 234-251 run on the arguments and leave isInside
EvaluateBoundary ==
  /\ eval.call = "BoundaryTest"
  /\ ~eval.returned
  /\ LET test == BoundaryTest(eval.hostelConfig, Num(eval.lat), Num(eval.lon))
     IN eval' = [eval EXCEPT !.returned = TRUE, !.isInside = test.isInside,
                             !.mode = test.mode]
  /\ UNCHANGED <<ledger, pc, req, resp, hist, watch, menuVars, roomVars>>

(* ----------------------- the GPS validation alone --------------------- *)

\* a GPS validation is about to run for a user and the location fields of
\* a body
InitHostel ==
  /\ ledger = EmptyBag
  /\ pc = [r \in ReqIds |-> "idle"]
  /\ req = [r \in ReqIds |-> NoRequest]
  /\ resp = [r \in ReqIds |-> NoResponse]
  /\ hist = [r \in ReqIds |-> NoHistory]
  /\ watch = NoWatch
  /\ InitMenu
  /\ InitRooms
  /\ \E userId \in Users, latitude \in Latitudes, longitude \in Longitudes,
        selectedHostel \in SelectedHostels :
       eval = [call |-> "GeofenceCheck", userId |-> userId,
               latitude |-> latitude, longitude |-> longitude,
               selectedHostel |-> selectedHostel, returned |-> FALSE,
               verdict |-> "-"]

\* lines 229-260 run on the arguments and leave the branch taken
EvaluateGeofence ==
  /\ eval.call = "GeofenceCheck"
  /\ ~eval.returned
  /\ eval' = [eval EXCEPT
                !.returned = TRUE,
                !.verdict = GeofenceCheck(eval.userId, eval.latitude, eval.longitude,
                                          eval.selectedHostel).verdict]
  /\ UNCHANGED <<ledger, pc, req, resp, hist, watch, menuVars, roomVars>>

(* --------------------------- specifications --------------------------- *)

\* concurrent check-ins over one collection
Next ==
  \/ \E r \in ReqIds :
       \/ Receive(r, "none")
       \/ FindUserReturn(r, "none")
       \/ FindOneReturn(r, "none")
       \/ GetFaceEmbeddingReturn(r, "none")
       \/ SaveReturn(r, "none")
       \/ StorageError(r, "none")
       \/ Retire(r)

Spec == Init /\ [][Next]_vars

\* one audited check-in at a time, with the record of what each gate read
\* and decided
NextAudit ==
  \/ Receive(1, "gates")
  \/ FindUserReturn(1, "gates")
  \/ FindOneReturn(1, "gates")
  \/ GetFaceEmbeddingReturn(1, "gates")
  \/ SaveReturn(1, "gates")
  \/ StorageError(1, "gates")
  \/ Retire(1)

SpecAudit == Init /\ [][NextAudit]_vars

\* one check-in at a time and the routes that update and delete documents
NextLedger ==
  \/ Receive(1, "ledger")
  \/ FindUserReturn(1, "ledger")
  \/ FindOneReturn(1, "ledger")
  \/ GetFaceEmbeddingReturn(1, "ledger")
  \/ SaveReturn(1, "ledger")
  \/ StorageError(1, "ledger")
  \/ Retire(1)
  \/ UpdateAttendance
  \/ DeleteToday
  \/ DeleteForSubjectAndDate

SpecLedger == Init /\ [][NextLedger]_vars

\* one check-in at a time, for progress: the reads of findById and findOne
\* are answered and a written response is delivered; the handler sets no
\* timer, so nothing makes getFaceEmbedding or save settle
SpecLive ==
  /\ Init
  /\ [][NextAudit]_vars
  /\ WF_vars(FindUserReturn(1, "gates"))
  /\ WF_vars(FindOneReturn(1, "gates"))
  /\ WF_vars(Retire(1))

\* one check-in at a time and the route that reports whether a user is
\* marked for a date
NextCheck ==
  \/ Receive(1, "none")
  \/ FindUserReturn(1, "none")
  \/ FindOneReturn(1, "none")
  \/ GetFaceEmbeddingReturn(1, "none")
  \/ SaveReturn(1, "none")
  \/ StorageError(1, "none")
  \/ Retire(1)
  \/ CheckAttendance

SpecCheck == Init /\ [][NextCheck]_vars

\* the boundary test on its own, over boundaries and query points
NextGeo == EvaluateBoundary

SpecGeo == InitGeo /\ [][NextGeo]_vars

\* check-ins one at a time, with the admin statistics read in between
NextStats ==
  \/ Receive(1, "none")
  \/ FindUserReturn(1, "none")
  \/ FindOneReturn(1, "none")
  \/ GetFaceEmbeddingReturn(1, "none")
  \/ SaveReturn(1, "none")
  \/ StorageError(1, "none")
  \/ Retire(1)
  \/ AdminStats

SpecStats == Init /\ [][NextStats]_vars

\* suggestion creation and two concurrent vote requests
NextVotes ==
  \/ CreateSuggestion
  \/ \E v \in VoteIds :
       \/ VoteReceive(v)
       \/ VoteFindByIdReturn(v)
       \/ VoteUpdateReturn(v)
       \/ VoteStorageError(v)
       \/ VoteRetire(v)

SpecVotes == Init /\ [][NextVotes]_vars

\* concurrent registrations, room change requests and concurrent status
\* updates
NextRooms ==
  \/ \E p \in RegIds :
       \/ RegisterReceive(p)
       \/ RegisterFindUserReturn(p)
       \/ RegisterFindRoomReturn(p)
       \/ RegisterCountReturn(p)
       \/ RegisterCreateReturn(p)
       \/ RegisterUpdateRoomReturn(p)
       \/ RegisterStorageError(p)
  \/ CreateRoomChange
  \/ \E a \in ApprIds :
       \/ UpdateReceive(a)
       \/ UpdateFindByIdReturn(a)
       \/ UpdateFindNewRoomReturn(a)
       \/ UpdateUserReturn(a)
       \/ UpdateSaveNewRoomReturn(a)
       \/ UpdateFindOldRoomReturn(a)
       \/ UpdateSaveOldRoomReturn(a)
       \/ UpdateSaveRequestReturn(a)
       \/ UpdateStorageError(a)

SpecRooms == Init /\ [][NextRooms]_vars

\* the GPS validation on its own, over users and location fields
NextHostel == EvaluateGeofence

SpecHostel == InitHostel /\ [][NextHostel]_vars

(* ------------------------------ claims -------------------------------- *)

\* the documents with isPresent = true of a (user, calendar day), counted
\* with their copies
PresentCopies(k) ==
  LET S == {rec \in BagToSet(ledger) : rec.isPresent /\ KeyOf(rec) = k}
  IN BagCardinality([rec \in S |-> ledger[rec]])

\* C1: in every reachable state of concurrent check-ins the collection
\* holds at most one document with isPresent = true for each subject and
\* calendar day.
C1_AtMostOnePresentPerDay == \A k \in Keys : PresentCopies(k) <= 1

\* C2: of the concurrent check-ins for one (subject, day), a request that
\* passed the duplicate check before another request's save completed is
\* not accepted at its own save: a save that finds a document of the
\* subject in the day does not answer 201.
C2_LateSaveNotAccepted ==
  [][\A r \in ReqIds :
       (pc[r] = "save" /\ ExistingAttendance(req[r].userId, req[r].date))
         => resp'[r] /= Created]_vars

\* the duplicate check of request 1 is answered in this step, for the
\* (user, day) of the watched save
AnswersCheckOfWatched ==
  /\ pc[1] = "findOne"
  /\ pc'[1] /= "findOne"
  /\ resp'[1] /= ServerError
  /\ watch.key = KeyOf(req[1])

C4_PresenceOnlyAfterFaceAccept ==
  \A r \in ReqIds :
    (pc[r] = "done" /\ resp[r] = Created /\ hist[r].isPresent = "true")
      => hist[r].bio = "accept"

\* C5: a check-in that ends in 201 and did not carry the "web" sentinel
\* was evaluated against the hostel's boundary and found inside.
C5_BypassOnlyBySentinel ==
  \A r \in ReqIds :
    (pc[r] = "done" /\ resp[r] = Created /\ ~hist[r].sentinel)
      => hist[r].geo = "inside"

\* the face verification would reject request r before any embedding is
\* generated: it applies and the user has no face vector
WouldFailEnrollment(r) ==
  /\ hist[r].isPresent = "true"
  /\ hist[r].photo
  /\ NoFaceEmbedding(req[r].userId)

\* C6: the response of a check-in whose user resolves is the rejection of
\* the first failing gate in the order duplicate check, geofence, face
\* verification, save: a duplicate is answered "already marked" whatever
\* its location; a non-duplicate outside the boundary is answered
\* "outside" whatever its enrollment; only then the enrollment and the
\* face decide, and 201 follows all of them.
C6_FirstFailingGateAnswers ==
  \A r \in ReqIds :
    (pc[r] = "done" /\ hist[r].read) =>
      /\ hist[r].existing => resp[r] = AlreadyMarked
      /\ (~hist[r].existing /\ hist[r].geo = "outside")
           => resp[r] = OutsideBoundary
      /\ (~hist[r].existing /\ hist[r].geo /= "outside" /\ WouldFailEnrollment(r))
           => resp[r] = NotRegistered
      /\ resp[r].error \in {EmbeddingFailed.error, "Face mismatch!", FaceServiceError.error}
           => (~hist[r].existing /\ hist[r].geo /= "outside" /\ hist[r].calls = 1)
      /\ resp[r] = Created
           => (~hist[r].existing /\ hist[r].geo /= "outside"
               /\ hist[r].bio \in {"-", "accept"})

\* a request that is a duplicate and outside the boundary was answered
\* "already marked"
C6_Witness ==
  /\ pc[1] = "done"
  /\ hist[1].read
  /\ hist[1].existing
  /\ hist[1].geo = "outside"
  /\ resp[1] = AlreadyMarked

\* C7: getFaceEmbedding is called for a check-in at most once, and only
\* if the request passed the duplicate check, passed or bypassed the
\* geofence, asserts presence and its user has a non-empty face vector.
C7_EmbeddingOnlyAfterGates ==
  \A r \in ReqIds :
    /\ hist[r].calls <= 1
    /\ hist[r].calls = 1 =>
         /\ hist[r].read
         /\ ~hist[r].existing
         /\ hist[r].geo /= "outside"
         /\ hist[r].isPresent = "true"
         /\ ~NoFaceEmbedding(req[r].userId)

\* getFaceEmbedding was called for a request
C7_Witness == pc[1] = "getFaceEmbedding" /\ hist[1].calls = 1

\* C8: a step of a check-in other than the one that answers 201 leaves
\* the collection as it was, so a request that ends in a rejection wrote
\* nothing.
C8_RejectionsWriteNothing ==
  [][\A r \in ReqIds :
       (pc'[r] /= pc[r] /\ resp'[r] /= Created) => ledger' = ledger]_vars

\* a request was rejected while the collection held a document
C8_Witness ==
  \E r \in ReqIds :
    /\ pc[r] = "done"
    /\ resp[r].status \in {400, 404, 500}
    /\ ledger /= EmptyBag

\* C9: a request whose similarity was computed passes the face
\* verification if and only if the score is at least 50 percent, and a
\* lower score is answered "Face mismatch" with the score.
C9_AcceptIffAtLeastThreshold ==
  \A r \in ReqIds :
    hist[r].gen = "score" =>
      IF hist[r].score >= MATCH_THRESHOLD * ScoreScale
      THEN /\ hist[r].bio = "accept"
           /\ resp[r].error /= "Face mismatch!"
           /\ pc[r] = "save" \/ resp[r] \in {Created, ServerError}
      ELSE /\ pc[r] = "done"
           /\ resp[r] = FaceMismatch(hist[r].score)

\* a score of exactly 50 percent was accepted and the check-in saved
C9_Witness ==
  /\ hist[1].gen = "score"
  /\ hist[1].score = MATCH_THRESHOLD * ScoreScale
  /\ resp[1] = Created

HappyPathEnded(r) ==
  /\ pc[r] = "done"
  /\ hist[r].read
  /\ ~hist[r].existing
  /\ hist[r].geo = "inside"
  /\ hist[r].mode = "radius"
  /\ hist[r].isPresent = "true"
  /\ hist[r].gen = "score"
  /\ hist[r].score >= MATCH_THRESHOLD * ScoreScale

\* the collection is what it was when r read it plus one document of the
\* request's user and date with isPresent true
GainedOnePresentRecord(r) ==
  ledger = hist[r].before (+)
             SetToBag({[userId |-> req[r].userId, date |-> req[r].date,
                        isPresent |-> TRUE]})

\* C11 (as stated): a check-in of a resolved, enrolled user with no
\* document for the day, a point inside the radius and a score of at
\* least 50 ends in 201, and the collection gains exactly one document
\* with the user, the request's date and isPresent true.
C11_HappyPathEndsIn201 ==
  \A r \in ReqIds :
    HappyPathEnded(r) => (resp[r] = Created /\ GainedOnePresentRecord(r))

\* C11 (amended): the same, for a request whose save did not throw; a
\* save that throws is answered 500 and nothing is stored.
C11_HappyPathEndsIn201UnlessStorageFails ==
  \A r \in ReqIds :
    HappyPathEnded(r) =>
      IF resp[r] = ServerError
      THEN ledger = hist[r].before
      ELSE resp[r] = Created /\ GainedOnePresentRecord(r)

\* such a check-in was answered 201
C11_Witness == HappyPathEnded(1) /\ resp[1] = Created /\ req[1].date = 1

\* C12: a GPS validation that took the radius branch finds the point
\* inside if and only if the computed distance is at most the radius, a
\* distance equal to the radius included; a request that reaches the
\* validation with a greater distance is answered "outside", and no
\* request at a distance within the radius is.
C12_InsideIffDistanceAtMostRadius ==
  \A r \in ReqIds :
    (hist[r].read /\ hist[r].mode = "radius") =>
      LET within == /\ ~hist[r].distance.nan
                    /\ hist[r].distance.v <= TEST_CONFIG.radius
      IN /\ (hist[r].geo = "inside") <=> within
         /\ (hist[r].geo = "outside") <=> ~within
         /\ (~hist[r].existing /\ ~within)
              => (pc[r] = "done" /\ resp[r] = OutsideBoundary)
         /\ within => resp[r] /= OutsideBoundary

\* a check-in at a distance equal to the radius was saved
C12_Witness ==
  /\ hist[1].mode = "radius"
  /\ hist[1].distance = Num(TEST_CONFIG.radius)
  /\ hist[1].geo = "inside"
  /\ resp[1] = Created

\* C13: a boundary test on a boundary that has a radius and a centre is
\* decided by the radius test alone, inside exactly when the distance to
\* the centre is at most the radius, whatever its points; the polygon test
\* decides only when the radius or the centre is missing.
C13_RadiusModeTakesPrecedence ==
  eval.returned =>
    LET c == eval.hostelConfig
    IN IF c.radius /= 0 /\ c.hasCenter
       THEN /\ eval.mode = "radius"
            /\ eval.isInside =
                 LessEq(getDistance(Num(eval.lat), Num(eval.lon),
                                    Num(c.center.latitude), Num(c.center.longitude)),
                        Num(c.radius))
       ELSE /\ eval.mode = "polygon"
            /\ eval.isInside = isPointInPolygon(Num(eval.lat), Num(eval.lon), c.points)

\* a point inside the polygon of a boundary and beyond its radius was
\* found outside
C13_Witness ==
  /\ eval.returned
  /\ eval.hostelConfig.radius /= 0
  /\ eval.hostelConfig.hasCenter
  /\ isPointInPolygon(Num(eval.lat), Num(eval.lon), eval.hostelConfig.points)
  /\ ~eval.isInside

\* the k-th edge of a ring, from vertex k to the vertex before it
EdgeOf(polygon, k) ==
  <<polygon[k], polygon[IF k = 1 THEN Len(polygon) ELSE k - 1]>>

\* the edge test with longitude as x and latitude as y: the latitudes of
\* the endpoints straddle the query latitude, and the longitude of the
\* edge at the query latitude is greater than the query longitude
TogglesWithLongitudeAsX(lat, lon, pi, pj) ==
  /\ (pi.latitude > lat) /= (pj.latitude > lat)
  /\ IF pj.latitude - pi.latitude > 0
     THEN (lon - pi.longitude) * (pj.latitude - pi.latitude)
            < (pj.longitude - pi.longitude) * (lat - pi.latitude)
     ELSE (lon - pi.longitude) * (pj.latitude - pi.latitude)
            > (pj.longitude - pi.longitude) * (lat - pi.latitude)

\* C14: the result of the server's polygon test is the parity of the
\* edges whose endpoint latitudes straddle the query latitude and whose
\* longitude at the query latitude is greater than the query longitude
\* (longitude as x, latitude as y).
C14_ParityWithLongitudeAsX ==
  (eval.returned /\ eval.mode = "polygon") =>
    LET polygon == eval.hostelConfig.points
        toggling == {k \in 1 .. Len(polygon) :
                       TogglesWithLongitudeAsX(eval.lat, eval.lon,
                                               EdgeOf(polygon, k)[1],
                                               EdgeOf(polygon, k)[2])}
    IN eval.isInside = (Cardinality(toggling) % 2 = 1)

\* the query point lies on an edge or a vertex of the ring
OnBoundary(lat, lon, polygon) ==
  \E k \in 1 .. Len(polygon) :
    LET a == EdgeOf(polygon, k)[1]
        b == EdgeOf(polygon, k)[2]
        q == [latitude |-> lat, longitude |-> lon]
    IN /\ Cross(a, b, q) = 0
       /\ (a.latitude - lat) * (b.latitude - lat) <= 0
       /\ (a.longitude - lon) * (b.longitude - lon) <= 0

\* the ring started k vertices later
Rotate(polygon, k) ==
  [i \in 1 .. Len(polygon) |-> polygon[((i + k - 1) % Len(polygon)) + 1]]

\* the ring in the opposite direction
Reverse(polygon) ==
  [i \in 1 .. Len(polygon) |-> polygon[Len(polygon) + 1 - i]]

\* C15: for a simple polygon and a query point on none of its edges and
\* vertices, the polygon test gives the same result on every cyclic
\* rotation of the vertex list and on the reversed list.
C15_RotationAndReversalInvariant ==
  (/\ eval.returned
   /\ eval.mode = "polygon"
   /\ ~OnBoundary(eval.lat, eval.lon, eval.hostelConfig.points)) =>
    \A k \in 0 .. Len(eval.hostelConfig.points) - 1 :
      LET rotated == Rotate(eval.hostelConfig.points, k)
      IN /\ isPointInPolygon(Num(eval.lat), Num(eval.lon), rotated) = eval.isInside
         /\ isPointInPolygon(Num(eval.lat), Num(eval.lon), Reverse(rotated))
              = eval.isInside

\* a point off the edges of the L-shaped ring was found inside it
C15_Witness ==
  /\ eval.returned
  /\ eval.mode = "polygon"
  /\ Len(eval.hostelConfig.points) = 6
  /\ ~OnBoundary(eval.lat, eval.lon, eval.hostelConfig.points)
  /\ eval.isInside

\* the duplicate check of request 1 is answered in this step
AnswersDuplicateCheck ==
  /\ pc[1] = "findOne"
  /\ pc'[1] /= "findOne"
  /\ resp'[1] /= ServerError

\* GET /check answers 200 in this step
AnswersCheck == eval' /= eval /\ eval'.call = "check" /\ eval'.status = 200

\* the collection holds a document of userId dated from..to with
\* isPresent true
PresentRecordIn(userId, from, to) ==
  \E rec \in BagToSet(ledger) :
    rec.userId = userId /\ rec.isPresent /\ rec.date >= from /\ rec.date <= to

\* the collection holds a document of userId dated from..to
RecordIn(userId, from, to) ==
  \E rec \in BagToSet(ledger) :
    rec.userId = userId /\ rec.date >= from /\ rec.date <= to

\* C16: the duplicate check of a check-in rejects, and GET /check reports
\* marked, if and only if the collection holds a document of the user with
\* isPresent true dated in the window the route checks; a document with
\* isPresent false makes neither do so.
C16_MarkedIffPresentRecord ==
  [][/\ AnswersDuplicateCheck =>
          (resp'[1] = AlreadyMarked <=>
             PresentRecordIn(req[1].userId, StartOfDay(req[1].date),
                             EndOfDay(req[1].date)))
     /\ AnswersCheck =>
          (eval'.marked <=>
             PresentRecordIn(eval'.userId, StartOfDay(eval'.date) - TicksPerDay,
                             EndOfDay(eval'.date) + TicksPerDay))]_vars

\* C17: the duplicate check of a check-in dated D and GET /check for D
\* both look at the day window of D widened by a day each side: each
\* reports "already marked" if and only if the collection holds a document
\* of the user dated from the start of D-1 to the end of D+1.
C17_BothUseWidenedWindow ==
  [][/\ AnswersDuplicateCheck =>
          (resp'[1] = AlreadyMarked <=>
             RecordIn(req[1].userId, StartOfDay(req[1].date) - TicksPerDay,
                      EndOfDay(req[1].date) + TicksPerDay))
     /\ AnswersCheck =>
          (eval'.marked <=>
             RecordIn(eval'.userId, StartOfDay(eval'.date) - TicksPerDay,
                      EndOfDay(eval'.date) + TicksPerDay))]_vars

\* the documents of the collection that are not of (user, day) k, with
\* their copies
OtherThan(k, bag) ==
  [rec \in {x \in BagToSet(bag) : KeyOf(x) /= k} |-> bag[rec]]

\* C18: what a check-in for (U, D) is answered and what it stores depend
\* on the documents of (U, D) only: its duplicate check rejects if and
\* only if the collection holds a document of (U, D), whatever documents
\* of other users and days it holds and whatever other requests are in
\* flight; and a step of the request leaves the documents of every other
\* (user, day) as they were, adding at most the one document of its own
\* user, date and isPresent.
C18_OutcomeDependsOnOwnKeyOnly ==
  [][\A r \in ReqIds :
       /\ (pc[r] = "findOne" /\ pc'[r] /= "findOne" /\ resp'[r] /= ServerError) =>
            (resp'[r] = AlreadyMarked <=>
               \E rec \in BagToSet(ledger) : KeyOf(rec) = KeyOf(req[r]))
       /\ pc'[r] /= pc[r] =>
            /\ OtherThan(KeyOf(req[r]), ledger') = OtherThan(KeyOf(req[r]), ledger)
            /\ \/ ledger' = ledger
               \/ /\ resp'[r] = Created
                  /\ ledger' = ledger (+)
                       SetToBag({[userId |-> req[r].userId, date |-> req[r].date,
                                  isPresent |-> req[r].isPresent]})]_vars

\* two check-ins in flight together for different (user, day) pairs were
\* both answered 201
C18_Witness ==
  /\ pc[1] = "done" /\ resp[1] = Created
  /\ pc[2] = "done" /\ resp[2] = Created
  /\ \E a, b \in BagToSet(ledger) : KeyOf(a) /= KeyOf(b)

\* C19: every check-in that was received is eventually answered, even
\* when getFaceEmbedding or a storage call never returns.
C19_EveryRequestAnswered ==
  (pc[1] \in {"findUser", "findOne", "getFaceEmbedding", "save"}) ~> (pc[1] = "done")

\* request r carried isPresent false and was never sent to the face
\* verification: getFaceEmbedding was not called and the answer is none of
\* the face verification's rejections
AbsenceSkipsFaceCheck(r) ==
  /\ hist[r].calls = 0
  /\ hist[r].gen = "-"
  /\ resp[r].error \notin {NotRegistered.error, "Face mismatch!",
                           EmbeddingFailed.error, FaceServiceError.error}

\* request r carried isPresent false, passed the duplicate check and was
\* not outside the boundary, and has ended
AbsencePassedGatesAndEnded(r) ==
  /\ hist[r].read
  /\ hist[r].isPresent = "false"
  /\ ~hist[r].existing
  /\ hist[r].geo /= "outside"
  /\ pc[r] = "done"

\* the collection is what it was when r read it plus one document of the
\* request's user and date with isPresent false
GainedOneAbsenceRecord(r) ==
  ledger = hist[r].before (+)
             SetToBag({[userId |-> req[r].userId, date |-> req[r].date,
                        isPresent |-> FALSE]})

\* C20 (as stated): a check-in with isPresent false never calls
\* getFaceEmbedding and is never answered not-registered, mismatch or an
\* embedding error, with or without a photo and a registered face; if it
\* passes the duplicate check and the geofence it is saved.
C20_AbsenceSkipsFaceCheckAndIsSaved ==
  \A r \in ReqIds :
    hist[r].isPresent = "false" =>
      /\ AbsenceSkipsFaceCheck(r)
      /\ AbsencePassedGatesAndEnded(r) =>
           (resp[r] = Created /\ GainedOneAbsenceRecord(r))

\* C20 (amended): the same, the request being saved and answered 201
\* unless its save throws, which is answered 500 with nothing stored.
C20_AbsenceSkipsFaceCheckAndReachesSave ==
  \A r \in ReqIds :
    hist[r].isPresent = "false" =>
      /\ AbsenceSkipsFaceCheck(r)
      /\ (hist[r].read /\ ~hist[r].existing /\ hist[r].geo /= "outside")
           => pc[r] \in {"save", "done"}
      /\ AbsencePassedGatesAndEnded(r) =>
           IF resp[r] = ServerError
           THEN ledger = hist[r].before
           ELSE resp[r] = Created /\ GainedOneAbsenceRecord(r)

\* an absence marking with a photo, of a user without a face vector, was
\* answered 201
C20_Witness ==
  /\ AbsencePassedGatesAndEnded(1)
  /\ hist[1].photo
  /\ NoFaceEmbedding(req[1].userId)
  /\ resp[1] = Created

\* the branch of the GPS validation against the boundary of hostel name
VerdictAgainst(name, latitude, longitude) ==
  IF name \in ConfiguredHostels /\ Truthy(latitude) /\ Truthy(longitude)
     /\ latitude /= "web"
  THEN IF BoundaryTest(HOSTEL_LOCATIONS(name), parseFloat(latitude),
                       parseFloat(longitude)).isInside
       THEN "inside" ELSE "outside"
  ELSE "bypass"

\* C21: the GPS validation of a request that names a hostel is made
\* against that hostel's boundary and is the same for every user,
\* whatever the user's own hostel block; the user's hostel block is taken
\* only when the request names no hostel.
C21_ValidatesClaimedHostel ==
  (eval.call = "GeofenceCheck" /\ eval.returned) =>
    IF Truthy(eval.selectedHostel)
    THEN /\ eval.verdict = VerdictAgainst(eval.selectedHostel, eval.latitude,
                                          eval.longitude)
         /\ \A other \in Users :
              GeofenceCheck(other, eval.latitude, eval.longitude,
                            eval.selectedHostel).verdict = eval.verdict
    ELSE eval.verdict = VerdictAgainst(UserDocs[eval.userId].hostelBlock,
                                       eval.latitude, eval.longitude)

\* a request of a user whose own hostel block has no boundary named a
\* configured hostel and was found outside it
C21_Witness ==
  /\ eval.call = "GeofenceCheck"
  /\ eval.returned
  /\ UserDocs[eval.userId].hostelBlock \notin ConfiguredHostels
  /\ eval.selectedHostel \in ConfiguredHostels
  /\ eval.verdict = "outside"

\* C22: when User.findById answers without a user, the handler returns 404
\* 'User not found' in that step: it never awaits Attendance.findOne, the
\* GPS validation and getFaceEmbedding have not run, and the collection is
\* unchanged.
C22_UnknownUserAnswered404BeforeGates ==
  [][(FindUserReturn(1, "gates") /\ req[1].userId \notin Users) =>
       /\ pc'[1] = "done"
       /\ resp'[1] = UserNotFound
       /\ ~hist'[1].read
       /\ hist'[1].geo = "-"
       /\ hist'[1].calls = 0
       /\ ledger' = ledger]_vars

\* a request for an id without a user was answered 404 while documents
\* of other requests were stored
C22_Witness ==
  /\ pc[1] = "done"
  /\ req[1].userId \notin Users
  /\ resp[1] = UserNotFound
  /\ ~hist[1].read
  /\ ledger /= EmptyBag

\* C23: every step that changes the collection either inserts the one
\* document of a check-in answered 201 or removes documents; no step
\* changes the userId, date or isPresent of a stored document, so no step
\* turns a stored document into a second document with isPresent = true of
\* a (user, day).
C23_RecordsImmutable ==
  [][ledger' /= ledger =>
       \/ ledger' \sqsubseteq ledger
       \/ /\ pc[1] = "save"
          /\ resp'[1] = Created
          /\ ledger' = ledger (+) SetToBag({[userId |-> req[1].userId,
                                             date |-> req[1].date,
                                             isPresent |-> req[1].isPresent]})]_vars

\* C24: a check-in rejected as outside a boundary in radius mode, with a
\* distance that was measured, gets a 400 response that carries the
\* measured distance to the centre.
C24_RadiusRejectionCarriesDistance ==
  \A r \in ReqIds :
    (/\ pc[r] = "done"
     /\ resp[r].status = 400
     /\ resp[r].error = OutsideBoundary.error
     /\ hist[r].mode = "radius"
     /\ ~hist[r].distance.nan)
      => resp[r].detail = hist[r].distance.v

\* C25: DELETE /user/U/date/D removes exactly the documents of U dated in
\* calendar day D and leaves every other document, those of U for D-1 and
\* D+1 included; after it GET /check finds nothing for (U, D) and the
\* duplicate check of a check-in for (U, D) finds nothing.
C25_DeletesExactlyTheDay ==
  [][\A userId \in Users, date \in Dates :
       DeleteForSubjectAndDateOn(userId, date) =>
         /\ ledger' = DeleteMany(InWindow(userId, StartOfDay(date), EndOfDay(date)))
         /\ ~MarkedInCheck(userId, date)'
         /\ ~ExistingAttendance(userId, date)']_vars

\* the loop of the client's isPointInPolygon from vertex i on, j the vertex
\* visited before i
RECURSIVE ClientPolygonLoop(_, _, _, _, _, _)
ClientPolygonLoop(lat, lon, polygon, i, j, inside) ==
  IF i > Len(polygon) THEN inside
  ELSE ClientPolygonLoop(lat, lon, polygon, i + 1, i,
                         IF TogglesWithLongitudeAsX(lat, lon, polygon[i], polygon[j])
                         THEN ~inside ELSE inside)

\* the client's test called with the point's longitude for lat and its
\* latitude for lon
ClientIsPointInPolygon_SwappedPoint(lat, lon, polygon) ==
  ClientPolygonLoop(lon, lat, polygon, 1, Len(polygon), FALSE)

\* the client's isPointInPolygon: longitude as x, latitude as y
ClientIsPointInPolygon(lat, lon, polygon) ==
  ClientPolygonLoop(lat, lon, polygon, 1, Len(polygon), FALSE)

\* C26: for a simple polygon and a query point on none of its edges and
\* vertices, the server's isPointInPolygon (latitude as x) and the
\* client's isPointInPolygon (longitude as x) return the same result.
C26_ClientAndServerAgreeOffBoundary ==
  (/\ eval.returned
   /\ eval.mode = "polygon"
   /\ ~OnBoundary(eval.lat, eval.lon, eval.hostelConfig.points)) =>
    eval.isInside = ClientIsPointInPolygon(eval.lat, eval.lon,
                                           eval.hostelConfig.points)

\* a point off the edges was found inside a polygon that does not hold
\* the point with latitude and longitude exchanged
C26_Witness ==
  /\ eval.returned
  /\ eval.mode = "polygon"
  /\ ~OnBoundary(eval.lat, eval.lon, eval.hostelConfig.points)
  /\ ~OnBoundary(eval.lon, eval.lat, eval.hostelConfig.points)
  /\ eval.isInside
  /\ ~isPointInPolygon(Num(eval.lon), Num(eval.lat), eval.hostelConfig.points)

\* C30: the admin statistics of a block count each of its students once:
\* attendanceCount + absentCount = studentCount.
C30_StatsPartitionStudents ==
  eval.call = "stats" =>
    eval.attendanceCount + eval.absentCount = eval.studentCount

\* C29: in every state reached by suggestion creation and concurrent vote
\* requests, no user id occurs twice in votedBy of a suggestion and votes
\* equals the length of votedBy; a vote answered 400 was by a user in
\* votedBy.
C29_EachUserVotesOnce ==
  /\ \A s \in SuggestionIds :
       suggestions[s].exists =>
         /\ \A i, j \in 1 .. Len(suggestions[s].votedBy) :
              suggestions[s].votedBy[i] = suggestions[s].votedBy[j] => i = j
         /\ suggestions[s].votes = Len(suggestions[s].votedBy)
  /\ \A v \in VoteIds :
       (voting[v].pc = "done" /\ voting[v].status = 400) =>
         Includes(suggestions[voting[v].id].votedBy, voting[v].userId)

\* the capacity of a room: its document's, 4 without a document
CapacityOf(roomNumber) ==
  IF rooms[roomNumber].exists THEN rooms[roomNumber].capacity ELSE DefaultCapacity

\* C27: in every state reached by concurrent registrations and room change
\* approvals, the students assigned to a room are at most its capacity and
\* the stored currentOccupancy of a Room document is at most its capacity.
C27_RoomsWithinCapacity ==
  \A n \in RoomNumbers :
    /\ Occupants(n) <= CapacityOf(n)
    /\ rooms[n].exists => rooms[n].currentOccupancy <= rooms[n].capacity

\* C28: the room move of a room change request is applied at most once,
\* whatever status updates the request receives.
C28_MoveAppliedAtMostOnce ==
  \A q \in RequestIds : roomChanges[q].moves <= 1

====
